---- MODULE Spec2Model ----
(***************************************************************************)
(* Model of src/handler.ts of the bicep-deploy action: execute, with its   *)
(* scope validation, its dispatch to the scope-specific remote operation,  *)
(* the two-tier error handling and the projection of outputs.              *)
(*                                                                         *)
(* Strings the code inspects character by character (the schema token and  *)
(* the output keys, which are lower-cased before comparison) are sequences *)
(* of one-character strings.  Optional values that are not strings are     *)
(* sequences of length at most one: <<>> is undefined, <<v>> is v.         *)
(***************************************************************************)
EXTENDS Integers, Sequences, FiniteSets, TLC

VARIABLES pc, config, files, calls, remote, caught, errors, infos, failed, failedAt,
          outputs, outcome, thrown

vars == <<pc, config, files, calls, remote, caught, errors, infos, failed, failedAt,
          outputs, outcome, thrown>>

\* ------------------------------------------------------------------ bounds
MaxOutputs == 2
MaxMasked == 1

\* ------------------------------------------------------- optional values
None == <<>>
Some(x) == <<x>>
IsSome(o) == Len(o) > 0
Undefined == "undefined"

\* JavaScript truthiness of an optional string: undefined and "" are falsy.
Truthy(s) == s # Undefined /\ s # ""

\* ------------------------------------------------------------ characters
UpperChars == <<"A","B","C","D","E","F","G","H","I","J","K","L","M",
                "N","O","P","Q","R","S","T","U","V","W","X","Y","Z">>
LowerChars == <<"a","b","c","d","e","f","g","h","i","j","k","l","m",
                "n","o","p","q","r","s","t","u","v","w","x","y","z">>
DigitChars == <<"0","1","2","3","4","5","6","7","8","9">>

Range(s) == {s[i] : i \in 1..Len(s)}

IsLetter(c) == c \in Range(UpperChars) \cup Range(LowerChars)
IsVersionChar(c) == IsLetter(c) \/ c \in Range(DigitChars) \/ c = "-"

\* toLowerCase left out: the string as it is
toLowerCaseOmitted(s) == s

\* String.prototype.toLowerCase, one character at a time.
LowerChar(c) ==
  IF c \in Range(UpperChars)
    THEN LowerChars[CHOOSE i \in 1..Len(UpperChars) : UpperChars[i] = c]
    ELSE c

toLowerCase(s) == [i \in 1..Len(s) |-> LowerChar(s[i])]

\* --------------------------------------------------------- scope and config
ScopeTypes == {"tenant", "managementGroup", "subscription", "resourceGroup"}

KindOperations ==
  { <<"deployment", "create">>, <<"deployment", "validate">>, <<"deployment", "whatIf">>,
    <<"deploymentStack", "create">>, <<"deploymentStack", "validate">>,
    <<"deploymentStack", "delete">> }

Locations == {Undefined, "westus"}

\* output keys and masked-output names
kFoo == <<"f","o","o">>
kSecretOut == <<"s","e","c","r","e","t","O","u","t">>
kSecretOutCap == <<"S","e","c","r","e","t","O","u","t">>
kFooUpper == <<"F","O","O">>
kBar == <<"b","a","r">>

OutputKeys == {kFoo, kSecretOut, kSecretOutCap}
MaskNames == {kSecretOutCap, kFooUpper, kBar}
OutputValues == {"bar", "baz"}

SeqsUpTo(S, n) == UNION {[1..k -> S] : k \in 0..n}

\* config.maskedOutputs: undefined, or a list of names
MaskedOutputs == {None} \cup {Some(l) : l \in SeqsUpTo(MaskNames, MaxMasked)}

Configs ==
  { [type |-> ko[1], operation |-> ko[2], scope |-> [type |-> st],
     location |-> loc, maskedOutputs |-> mo] :
       ko \in KindOperations, st \in ScopeTypes, loc \in Locations, mo \in MaskedOutputs }

\* ------------------------------------------------------------ parsed files
SchemaBase == "https://schema.management.azure.com/schemas/"

tTenant == <<"t","e","n","a","n","t","D","e","p","l","o","y","m","e","n","t">>
tTenantCap == <<"T","e","n","a","n","t","D","e","p","l","o","y","m","e","n","t">>
tManagementGroup == <<"m","a","n","a","g","e","m","e","n","t","G","r","o","u","p",
                      "D","e","p","l","o","y","m","e","n","t">>
tSubscription == <<"s","u","b","s","c","r","i","p","t","i","o","n",
                   "D","e","p","l","o","y","m","e","n","t">>
tSubscriptionLower == <<"s","u","b","s","c","r","i","p","t","i","o","n",
                        "d","e","p","l","o","y","m","e","n","t">>
tDeployment == <<"d","e","p","l","o","y","m","e","n","t">>
tDeploymentUpper == <<"D","E","P","L","O","Y","M","E","N","T">>
tUnknown == <<"f","o","o">>
tEmpty == <<>>

vDate == <<"2","0","1","9","-","0","4","-","0","1">>
vOne == <<"v","1">>
vBad == <<"v","_">>
vEmpty == <<>>

\* The $schema of a template, split where the pattern of getScope splits it:
\* base, version, "/", token, file.  absent is a template without $schema.
SchemaOf(b, v, t, f) == [absent |-> FALSE, base |-> b, version |-> v, token |-> t, file |-> f]
NoSchema == [absent |-> TRUE, base |-> "", version |-> <<>>, token |-> <<>>, file |-> ""]

Schemas ==
  {NoSchema}
  \cup { SchemaOf(SchemaBase, vDate, t, "Template.json#") :
           t \in {tTenant, tTenantCap, tManagementGroup, tSubscription, tSubscriptionLower,
                  tDeployment, tDeploymentUpper, tUnknown, tEmpty} }
  \cup { SchemaOf(SchemaBase, v, tDeployment, "Template.json#") : v \in {vOne, vBad, vEmpty} }
  \cup { SchemaOf(SchemaBase, vOne, tTenant, f) : f \in {"Template.json", "template.json#"} }
  \cup { SchemaOf("https://example.com/schemas/", vDate, tSubscription, "Template.json#") }

\* templateContents: generator is metadata._generator.name (Undefined when absent)
Templates ==
  { [generator |-> g, schema |-> s] : g \in {Undefined, "bicep"}, s \in Schemas }

TemplateSpecIds == {Undefined, "ts-id"}

ParsedFiles ==
  { [templateContents |-> tc, templateSpecId |-> ts] :
      tc \in {None} \cup {Some(t) : t \in Templates}, ts \in TemplateSpecIds }

\* ------------------------------------------------------------------ errors
\* An error value.  kind is the class (RestError, Error, TypeError, SyntaxError);
\* a RestError may carry a response (its correlation header and bodyAsText) and
\* details, the parsed body, which may carry a structured service error.
NoDetails == None
DetailsWithoutError == Some([error |-> None])
DetailsWithError(code) == Some([error |-> Some([code |-> code])])

JsError(kind, message) ==
  [kind |-> kind, message |-> message, hasResponse |-> FALSE,
   correlationId |-> Undefined, bodyAsText |-> Undefined, details |-> NoDetails]

RestError(message, cid, body, details) ==
  [kind |-> "RestError", message |-> message, hasResponse |-> TRUE,
   correlationId |-> cid, bodyAsText |-> body, details |-> details]

NoError == JsError("none", <<>>)

\* The result of a synchronous step: a returned value or a thrown error.
Returned(v) == [threw |-> FALSE, value |-> v, error |-> NoError]
Threw(e) == [threw |-> TRUE, value |-> Undefined, error |-> e]

\* ------------------------------------------------------- scope validation
\* The pattern of getScope applied to a $schema: the captured token, or None
\* when the pattern does not match (exec returns null).
FileMatches(f) == f \in {"Template.json", "Template.json#"}

SchemaPatternExec(schema) ==
  IF /\ ~schema.absent
     /\ schema.base = SchemaBase
     /\ Len(schema.version) > 0
     /\ \A i \in 1..Len(schema.version) : IsVersionChar(schema.version[i])
     /\ Len(schema.token) > 0
     /\ \A i \in 1..Len(schema.token) : IsLetter(schema.token[i])
     /\ FileMatches(schema.file)
    THEN Some(schema.token)
    ELSE None

\* the case labels of the switch in getScope
cTenantDeployment == <<"t","e","n","a","n","t","d","e","p","l","o","y","m","e","n","t">>
cManagementGroupDeployment == <<"m","a","n","a","g","e","m","e","n","t","g","r","o","u","p",
                                "d","e","p","l","o","y","m","e","n","t">>
cSubscriptionDeployment == <<"s","u","b","s","c","r","i","p","t","i","o","n",
                             "d","e","p","l","o","y","m","e","n","t">>
cDeployment == <<"d","e","p","l","o","y","m","e","n","t">>

ScopeInferenceError ==
  JsError("Error", <<"Failed to determine deployment scope from Bicep file.">>)

\* getScope without the early return for templates that no tool generated
getScopeStrict(fs) ==
  LET template == IF IsSome(fs.templateContents)
                    THEN fs.templateContents[1]
                    ELSE [generator |-> Undefined, schema |-> NoSchema]
      result == SchemaPatternExec(template.schema)
      scopeMatch == IF IsSome(result) THEN toLowerCase(result[1]) ELSE <<>>
  IN IF ~IsSome(result) THEN Threw(ScopeInferenceError)
     ELSE IF scopeMatch = cTenantDeployment THEN Returned("tenant")
     ELSE IF scopeMatch = cManagementGroupDeployment THEN Returned("managementGroup")
     ELSE IF scopeMatch = cSubscriptionDeployment THEN Returned("subscription")
     ELSE IF scopeMatch = cDeployment THEN Returned("resourceGroup")
     ELSE Threw(ScopeInferenceError)

getScope(fs) ==
  LET template == IF IsSome(fs.templateContents)
                    THEN fs.templateContents[1]
                    ELSE [generator |-> Undefined, schema |-> NoSchema]
      bicepGenerated == template.generator
      result == SchemaPatternExec(template.schema)
      scopeMatch == IF IsSome(result) THEN toLowerCase(result[1]) ELSE <<>>
  IN IF ~Truthy(bicepGenerated) THEN Returned(Undefined)
     ELSE IF ~IsSome(result) THEN Threw(ScopeInferenceError)
     ELSE IF scopeMatch = cTenantDeployment THEN Returned("tenant")
     ELSE IF scopeMatch = cManagementGroupDeployment THEN Returned("managementGroup")
     ELSE IF scopeMatch = cSubscriptionDeployment THEN Returned("subscription")
     ELSE IF scopeMatch = cDeployment THEN Returned("resourceGroup")
     ELSE Threw(ScopeInferenceError)

ScopeMismatchError(scope, configured) ==
  JsError("Error", <<"The target scope ", scope, " does not match the deployment scope ",
                     configured, ".">>)

validateFileScope(cfg, fs) ==
  LET scope == getScope(fs)
  IN IF scope.threw THEN scope
     ELSE IF scope.value = Undefined THEN Returned(Undefined)
     ELSE IF scope.value # cfg.scope.type
       THEN Threw(ScopeMismatchError(scope.value, cfg.scope.type))
     ELSE Returned(Undefined)

\* ---------------------------------------------------------- request bodies
\* requireLocation without its check
requireLocationUnchecked(cfg) == Returned(cfg.location)

requireLocation(cfg) ==
  IF ~Truthy(cfg.location)
    THEN Threw(JsError("Error", <<"Location is required">>))
    ELSE Returned(cfg.location)

getDeployment(cfg, fs) ==
  [location |-> cfg.location,
   mode |-> "Incremental",
   template |-> fs.templateContents,
   templateLink |-> IF Truthy(fs.templateSpecId) THEN Some([id |-> fs.templateSpecId]) ELSE None,
   expressionEvaluationScope |-> "inner"]

\* A stack has no location, mode or expression evaluation options of its own.
getStack(cfg, fs) ==
  [location |-> Undefined,
   mode |-> Undefined,
   template |-> fs.templateContents,
   templateLink |-> IF Truthy(fs.templateSpecId) THEN Some([id |-> fs.templateSpecId]) ELSE None,
   expressionEvaluationScope |-> Undefined]

\* { ...body, location: requireLocation(config) }
WithLocation(body, loc) == [body EXCEPT !.location = loc]

\* ------------------------------------------------------------- dispatch
\* What an operation function does up to its await: it throws, or it invokes one
\* remote method with a body; returnsResult tells whether the branch hands the
\* remote result back to its caller (return await ...) or drops it (await ...).
\* NotInvoked is a switch that matches no case: the function returns undefined.
Throws(e) == [threw |-> TRUE, error |-> e, invoked |-> FALSE, method |-> "",
              body |-> None, returnsResult |-> FALSE]
Invoke(method, body, returnsResult) ==
  [threw |-> FALSE, error |-> NoError, invoked |-> TRUE, method |-> method,
   body |-> body, returnsResult |-> returnsResult]
NotInvoked == [threw |-> FALSE, error |-> NoError, invoked |-> FALSE, method |-> "",
               body |-> None, returnsResult |-> FALSE]

\* client.method(..., { ...body, location: requireLocation(config) }): the argument
\* is evaluated first, so a missing location throws before the call is made.
InvokeWithLocation(method, cfg, body, returnsResult) ==
  LET loc == requireLocation(cfg)
  IN IF loc.threw THEN Throws(loc.error)
     ELSE Invoke(method, Some(WithLocation(body, loc.value)), returnsResult)

deploymentCreate(cfg, fs) ==
  LET deployment == getDeployment(cfg, fs)
  IN CASE cfg.scope.type = "resourceGroup" ->
            Invoke("deployments.beginCreateOrUpdateAndWait", Some(deployment), TRUE)
       [] cfg.scope.type = "subscription" ->
            InvokeWithLocation("deployments.beginCreateOrUpdateAtSubscriptionScopeAndWait",
                               cfg, deployment, TRUE)
       [] cfg.scope.type = "managementGroup" ->
            InvokeWithLocation("deployments.beginCreateOrUpdateAtManagementGroupScopeAndWait",
                               cfg, deployment, TRUE)
       [] cfg.scope.type = "tenant" ->
            InvokeWithLocation("deployments.beginCreateOrUpdateAtTenantScopeAndWait",
                               cfg, deployment, FALSE)
       [] OTHER -> NotInvoked

\* deploymentValidate with the subscription case calling the management group variant
deploymentValidateWrongScope(cfg, fs) ==
  LET deployment == getDeployment(cfg, fs)
  IN CASE cfg.scope.type = "resourceGroup" ->
            Invoke("deployments.beginValidateAndWait", Some(deployment), TRUE)
       [] cfg.scope.type \in {"subscription", "managementGroup"} ->
            InvokeWithLocation("deployments.beginValidateAtManagementGroupScopeAndWait",
                               cfg, deployment, TRUE)
       [] cfg.scope.type = "tenant" ->
            InvokeWithLocation("deployments.beginValidateAtTenantScopeAndWait",
                               cfg, deployment, FALSE)
       [] OTHER -> NotInvoked

deploymentValidate(cfg, fs) ==
  LET deployment == getDeployment(cfg, fs)
  IN CASE cfg.scope.type = "resourceGroup" ->
            Invoke("deployments.beginValidateAndWait", Some(deployment), TRUE)
       [] cfg.scope.type = "subscription" ->
            InvokeWithLocation("deployments.beginValidateAtSubscriptionScopeAndWait",
                               cfg, deployment, TRUE)
       [] cfg.scope.type = "managementGroup" ->
            InvokeWithLocation("deployments.beginValidateAtManagementGroupScopeAndWait",
                               cfg, deployment, TRUE)
       [] cfg.scope.type = "tenant" ->
            InvokeWithLocation("deployments.beginValidateAtTenantScopeAndWait",
                               cfg, deployment, FALSE)
       [] OTHER -> NotInvoked

deploymentWhatIf(cfg, fs) ==
  LET deployment == getDeployment(cfg, fs)
  IN CASE cfg.scope.type = "resourceGroup" ->
            Invoke("deployments.beginWhatIfAndWait", Some(deployment), TRUE)
       [] cfg.scope.type = "subscription" ->
            InvokeWithLocation("deployments.beginWhatIfAtSubscriptionScopeAndWait",
                               cfg, deployment, TRUE)
       [] cfg.scope.type = "managementGroup" ->
            InvokeWithLocation("deployments.beginWhatIfAtManagementGroupScopeAndWait",
                               cfg, deployment, TRUE)
       [] cfg.scope.type = "tenant" ->
            InvokeWithLocation("deployments.beginWhatIfAtTenantScopeAndWait",
                               cfg, deployment, TRUE)
       [] OTHER -> NotInvoked

stackCreate(cfg, fs) ==
  LET stack == getStack(cfg, fs)
  IN CASE cfg.scope.type = "resourceGroup" ->
            Invoke("deploymentStacks.beginCreateOrUpdateAtResourceGroupAndWait", Some(stack), TRUE)
       [] cfg.scope.type = "subscription" ->
            InvokeWithLocation("deploymentStacks.beginCreateOrUpdateAtSubscriptionAndWait",
                               cfg, stack, TRUE)
       [] cfg.scope.type = "managementGroup" ->
            InvokeWithLocation("deploymentStacks.beginCreateOrUpdateAtManagementGroupAndWait",
                               cfg, stack, TRUE)
       [] OTHER -> NotInvoked

stackValidate(cfg, fs) ==
  LET stack == getStack(cfg, fs)
  IN CASE cfg.scope.type = "resourceGroup" ->
            Invoke("deploymentStacks.beginValidateStackAtResourceGroupAndWait", Some(stack), TRUE)
       [] cfg.scope.type = "subscription" ->
            InvokeWithLocation("deploymentStacks.beginValidateStackAtSubscriptionAndWait",
                               cfg, stack, TRUE)
       [] cfg.scope.type = "managementGroup" ->
            InvokeWithLocation("deploymentStacks.beginValidateStackAtManagementGroupAndWait",
                               cfg, stack, TRUE)
       [] OTHER -> NotInvoked

\* The delete calls take deletion options, no request body.
stackDelete(cfg) ==
  CASE cfg.scope.type = "resourceGroup" ->
         Invoke("deploymentStacks.beginDeleteAtResourceGroupAndWait", None, TRUE)
    [] cfg.scope.type = "subscription" ->
         Invoke("deploymentStacks.beginDeleteAtSubscriptionAndWait", None, TRUE)
    [] cfg.scope.type = "managementGroup" ->
         Invoke("deploymentStacks.beginDeleteAtManagementGroupAndWait", None, TRUE)
    [] OTHER -> NotInvoked

\* The two switches of execute, on config.type and config.operation.
Dispatch(cfg, fs) ==
  CASE cfg.type = "deployment" /\ cfg.operation = "create" -> deploymentCreate(cfg, fs)
    [] cfg.type = "deployment" /\ cfg.operation = "validate" -> deploymentValidate(cfg, fs)
    [] cfg.type = "deployment" /\ cfg.operation = "whatIf" -> deploymentWhatIf(cfg, fs)
    [] cfg.type = "deploymentStack" /\ cfg.operation = "create" -> stackCreate(cfg, fs)
    [] cfg.type = "deploymentStack" /\ cfg.operation = "validate" -> stackValidate(cfg, fs)
    [] cfg.type = "deploymentStack" /\ cfg.operation = "delete" -> stackDelete(cfg)
    [] OTHER -> NotInvoked

\* ------------------------------------------------------- remote outcomes
\* The outputs of a remote result: a record from key to { value }, listed in the
\* order Object.keys yields, so no key occurs twice.
OutputEntries == { [key |-> k, value |-> v] : k \in OutputKeys, v \in OutputValues }

OutputRecords ==
  { o \in SeqsUpTo(OutputEntries, MaxOutputs) :
      \A i, j \in 1..Len(o) : i # j => o[i].key # o[j].key }

\* A remote result: properties.outputs is undefined or a record of outputs.
RemoteResults == { [outputs |-> None] } \cup { [outputs |-> Some(o)] : o \in OutputRecords }

ServiceErrorCode == "InvalidTemplateDeployment"
BodyStructured == "{\"error\":{\"code\":\"InvalidTemplateDeployment\"}}"
BodyUnstructured == "{\"message\":\"Too many requests\"}"
BodyNotJson == "<html>Bad Gateway</html>"

\* What a remote call can reject with: a RestError with a structured service error,
\* one whose JSON body carries no error, one whose body is not JSON (it was never
\* parsed, so there are no details), one with an empty body, one without any
\* response (the request never got through), and an error that is no RestError.
RemoteErrors ==
  { RestError(<<"deployment failed">>, "corr-1", BodyStructured, DetailsWithError(ServiceErrorCode)),
    RestError(<<"deployment failed">>, Undefined, BodyStructured, DetailsWithError(ServiceErrorCode)),
    RestError(<<"throttled">>, "corr-2", BodyUnstructured, DetailsWithoutError),
    RestError(<<"bad gateway">>, "corr-3", BodyNotJson, NoDetails),
    RestError(<<"no content">>, "corr-4", "", NoDetails),
    JsError("RestError", <<"connect ECONNREFUSED">>),
    JsError("Error", <<"unexpected">>) }

\* ------------------------------------------------------------------- JSON
\* JSON.parse of a response body: the document, or a SyntaxError.
JsonParse(text) ==
  CASE text = BodyStructured ->
         Returned([error |-> Some([code |-> ServiceErrorCode]), message |-> Undefined])
    [] text = BodyUnstructured ->
         Returned([error |-> None, message |-> "Too many requests"])
    [] OTHER -> Threw(JsError("SyntaxError", <<"Unexpected token in JSON">>))

\* JSON.stringify(value, null, 2), as the tokens of the text it prints.
StringifyError(e) == <<"{", "code", ":", e.code, "}">>

StringifyBody(doc) ==
  <<"{">>
  \o (IF IsSome(doc.error) THEN <<"error", ":">> \o StringifyError(doc.error[1]) ELSE <<>>)
  \o (IF doc.message # Undefined THEN <<"message", ":", doc.message>> ELSE <<>>)
  \o <<"}">>

\* `Request failed. CorrelationId: ${correlationId}`
CorrelationLine(cid) == <<"Request failed. CorrelationId: ", cid>>

\* ex.response?.headers.get("x-ms-correlation-request-id")
CorrelationIdOf(ex) == IF ex.hasResponse THEN ex.correlationId ELSE Undefined

\* ---------------------------------------------------------- side effects
\* What a piece of code did: the lines it logged as errors and as information, the
\* setFailed messages, the setOutput/setSecret calls, and how it ended.  A single
\* piece logs its error lines before it calls setFailed (logError(...); setFailed(...));
\* failedAt tells, for each setFailed call, how many error lines were logged before it.
Effects(e, i, f, o, raised, err) ==
  [errors |-> e, infos |-> i, failed |-> f, failedAt |-> [k \in 1..Len(f) |-> Len(e)],
   outputs |-> o, raised |-> raised, error |-> err]

\* a, then b
Then(a, b) ==
  [errors |-> a.errors \o b.errors,
   infos |-> a.infos \o b.infos,
   failed |-> a.failed \o b.failed,
   failedAt |-> a.failedAt \o [k \in 1..Len(b.failedAt) |-> Len(a.errors) + b.failedAt[k]],
   outputs |-> a.outputs \o b.outputs,
   raised |-> b.raised,
   error |-> b.error]

Nothing == Effects(<<>>, <<>>, <<>>, <<>>, FALSE, NoError)
Raise(e) == Effects(<<>>, <<>>, <<>>, <<>>, TRUE, e)

\* --------------------------------------------------------- setCreateOutputs
\* IsMasked comparing the names as they are written
IsMaskedCaseSensitive(cfg, key) ==
  /\ IsSome(cfg.maskedOutputs)
  /\ \E i \in 1..Len(cfg.maskedOutputs[1]) : cfg.maskedOutputs[1][i] = key

\* config.maskedOutputs && config.maskedOutputs.some(x => x.toLowerCase() === key.toLowerCase())
IsMasked(cfg, key) ==
  /\ IsSome(cfg.maskedOutputs)
  /\ \E i \in 1..Len(cfg.maskedOutputs[1]) :
       toLowerCase(cfg.maskedOutputs[1][i]) = toLowerCase(key)

SetOutput(key, value) == [op |-> "setOutput", name |-> key, value |-> value]
SetSecret(value) == [op |-> "setSecret", name |-> <<>>, value |-> value]

RECURSIVE OutputCalls(_, _, _)
OutputCalls(cfg, outs, i) ==
  IF i > Len(outs) THEN <<>>
  ELSE <<SetOutput(outs[i].key, outs[i].value)>>
       \o (IF IsMasked(cfg, outs[i].key) THEN <<SetSecret(outs[i].value)>> ELSE <<>>)
       \o OutputCalls(cfg, outs, i + 1)

\* outs is result?.properties?.outputs
setCreateOutputs(cfg, outs) ==
  IF ~IsSome(outs) THEN <<>> ELSE OutputCalls(cfg, outs[1], 1)

\* tryWithErrorHandling whose catch block lacks the return after onError(error)
tryWithErrorHandlingCatchNoReturn(ex, message) ==
  IF ex.kind = "RestError"
    THEN LET logged == Effects(<<CorrelationLine(CorrelationIdOf(ex))>>, <<>>, <<>>, <<>>,
                               FALSE, NoError)
         IN IF ~IsSome(ex.details)
              THEN Then(logged, Raise(JsError("TypeError",
                          <<"Cannot destructure property 'error' of undefined">>)))
            ELSE IF IsSome(ex.details[1].error)
              THEN Then(logged, Effects(<<StringifyError(ex.details[1].error[1])>>, <<>>,
                                        <<message>>, <<>>, TRUE, ex))
            ELSE Then(logged, Raise(ex))
    ELSE Raise(ex)

\* ------------------------------------------------------ tryWithErrorHandling
\* The catch block of tryWithErrorHandling for the error ex of the action, with
\* the setFailed message of the onError handler the caller supplied.
tryWithErrorHandlingCatch(ex, message) ==
  IF ex.kind = "RestError"
    THEN LET logged == Effects(<<CorrelationLine(CorrelationIdOf(ex))>>, <<>>, <<>>, <<>>,
                               FALSE, NoError)
         IN IF ~IsSome(ex.details)
              \* const { error } = ex.details: destructuring undefined throws
              THEN Then(logged, Raise(JsError("TypeError",
                          <<"Cannot destructure property 'error' of undefined">>)))
            ELSE IF IsSome(ex.details[1].error)
              THEN Then(logged, Effects(<<StringifyError(ex.details[1].error[1])>>, <<>>,
                                        <<message>>, <<>>, FALSE, NoError))
            ELSE Then(logged, Raise(ex))
    ELSE Raise(ex)

\* ------------------------------------------------- the catch block of execute
\* the catch block of execute marking the run failed before it logs anything
executeCatchFailsFirst(error) ==
  LET setFailedFirst == Effects(<<>>, <<>>, <<"Operation failed">>, <<>>, FALSE, NoError)
  IN IF error.kind = "RestError" /\ error.hasResponse /\ Truthy(error.bodyAsText)
       THEN LET logged == Effects(<<CorrelationLine(error.correlationId)>>, <<>>, <<>>, <<>>,
                                  FALSE, NoError)
                responseBody == JsonParse(error.bodyAsText)
            IN IF responseBody.threw
                 THEN Then(setFailedFirst, Then(logged, Raise(responseBody.error)))
                 ELSE Then(setFailedFirst,
                        Then(logged,
                          Then(Effects(<<StringifyBody(responseBody.value)>>, <<>>, <<>>, <<>>,
                                       FALSE, NoError),
                               Raise(error))))
       ELSE Then(setFailedFirst, Raise(error))

executeCatch(error) ==
  LET setFailedAndThrow == Effects(<<>>, <<>>, <<"Operation failed">>, <<>>, TRUE, error)
  IN IF error.kind = "RestError" /\ error.hasResponse /\ Truthy(error.bodyAsText)
       THEN LET logged == Effects(<<CorrelationLine(error.correlationId)>>, <<>>, <<>>, <<>>,
                                  FALSE, NoError)
                responseBody == JsonParse(error.bodyAsText)
            IN IF responseBody.threw
                 THEN Then(logged, Raise(responseBody.error))
                 ELSE Then(logged,
                        Then(Effects(<<StringifyBody(responseBody.value)>>, <<>>, <<>>, <<>>,
                                     FALSE, NoError),
                             setFailedAndThrow))
       ELSE setFailedAndThrow

\* ---------------------------------------------------------------- execute
\* How the operation function called by execute settled: rejected with an error,
\* or resolved with the value it returns (None is undefined).
Rejected(e) == [rejected |-> TRUE, error |-> e, result |-> None]
Resolved(r) == [rejected |-> FALSE, error |-> NoError, result |-> r]

WhatIfReport == "what-if report"

\* The body of the try block of execute from the point where the operation
\* function has settled.
executeTry(cfg, settled) ==
  CASE cfg.operation = "create" ->
         IF settled.rejected
           THEN tryWithErrorHandlingCatch(settled.error, "Create failed")
           ELSE Effects(<<>>, <<>>, <<>>,
                        setCreateOutputs(cfg, IF IsSome(settled.result)
                                                THEN settled.result[1].outputs ELSE None),
                        FALSE, NoError)
    [] cfg.operation = "validate" ->
         IF settled.rejected
           THEN tryWithErrorHandlingCatch(settled.error, "Validation failed")
           ELSE Nothing
    [] cfg.operation = "whatIf" ->
         IF settled.rejected
           THEN Raise(settled.error)
           ELSE Effects(<<>>, <<WhatIfReport>>, <<>>, <<>>, FALSE, NoError)
    [] cfg.operation = "delete" ->
         IF settled.rejected THEN Raise(settled.error) ELSE Nothing
    [] OTHER -> Nothing

\* ------------------------------------------------------------ the machine
\* pc: "start" before execute is called, "awaiting" while execute is suspended on
\* the remote call it made, "done" when execute has returned or raised.
\* remote: the remote operation execute awaits, and how it settled.
\* caught: the error bound in the catch block of execute, when it was entered.
\* errors, infos: the lines logged with logError and logInfoRaw.
\* failed: the messages of the setFailed calls; failedAt: for each of them, the
\* number of error lines logged before it.  outputs: the setOutput and
\* setSecret calls.  outcome, thrown: how execute ended.
RemoteIdle == [status |-> "idle", error |-> NoError, result |-> [outputs |-> None]]
RemotePending == [RemoteIdle EXCEPT !.status = "pending"]
RemoteResolved(r) == [status |-> "resolved", error |-> NoError, result |-> r]
RemoteRejected(e) == [status |-> "rejected", error |-> e, result |-> [outputs |-> None]]

\* try { body } catch (error) { ... }: execute ends after its try block ended as
\* body tells.
Finish(body) ==
  LET eff == IF body.raised THEN Then(body, executeCatch(body.error)) ELSE body
  IN /\ pc' = "done"
     /\ caught' = IF body.raised THEN Some(body.error) ELSE None
     /\ errors' = errors \o eff.errors
     /\ infos' = infos \o eff.infos
     /\ failed' = failed \o eff.failed
     /\ failedAt' = failedAt \o [k \in 1..Len(eff.failedAt) |-> Len(errors) + eff.failedAt[k]]
     /\ outputs' = outputs \o eff.outputs
     /\ outcome' = IF eff.raised THEN "raised" ELSE "returned"
     /\ thrown' = eff.error

Init ==
  /\ pc = "start"
  /\ config \in Configs
  /\ files \in ParsedFiles
  /\ calls = <<>>
  /\ remote = RemoteIdle
  /\ caught = None
  /\ errors = <<>>
  /\ infos = <<>>
  /\ failed = <<>>
  /\ failedAt = <<>>
  /\ outputs = <<>>
  /\ outcome = "none"
  /\ thrown = NoError

\* execute(config, files) up to its first await, or to its end when it makes no
\* remote call.
Execute ==
  /\ pc = "start"
  /\ UNCHANGED <<config, files>>
  /\ LET valid == validateFileScope(config, files)
         op == Dispatch(config, files)
     IN IF valid.threw
          THEN Finish(Raise(valid.error)) /\ UNCHANGED <<calls, remote>>
        ELSE IF op.threw
          THEN Finish(executeTry(config, Rejected(op.error))) /\ UNCHANGED <<calls, remote>>
        ELSE IF ~op.invoked
          THEN Finish(executeTry(config, Resolved(None))) /\ UNCHANGED <<calls, remote>>
        ELSE /\ calls' = Append(calls, [method |-> op.method, body |-> op.body])
             /\ remote' = RemotePending
             /\ pc' = "awaiting"
             /\ UNCHANGED <<caught, errors, infos, failed, failedAt, outputs, outcome, thrown>>

\* The remote operation reaches a terminal success; execute resumes and ends.
RemoteResolves ==
  /\ pc = "awaiting"
  /\ UNCHANGED <<config, files, calls>>
  /\ \E r \in RemoteResults :
       LET op == Dispatch(config, files)
       IN /\ remote' = RemoteResolved(r)
          /\ Finish(executeTry(config, Resolved(IF op.returnsResult THEN Some(r) ELSE None)))

\* The remote operation fails; execute resumes in a catch block and ends.
RemoteRejects ==
  /\ pc = "awaiting"
  /\ UNCHANGED <<config, files, calls>>
  /\ \E e \in RemoteErrors :
       /\ remote' = RemoteRejected(e)
       /\ Finish(executeTry(config, Rejected(e)))

Next == Execute \/ RemoteResolves \/ RemoteRejects

Spec == Init /\ [][Next]_vars

TypeOK ==
  /\ pc \in {"start", "awaiting", "done"}
  /\ config \in Configs
  /\ files \in ParsedFiles
  /\ Len(calls) <= 1
  /\ remote.status \in {"idle", "pending", "resolved", "rejected"}
  /\ outcome \in {"none", "returned", "raised"}
  /\ (pc = "done") = (outcome # "none")
  /\ (pc = "awaiting") = (remote.status = "pending")

\* =================================================================== claims
\* What each remote method of the two clients is: the resource kind, the
\* operation and the scope it acts at.
RemoteOperations ==
  { <<"deployments.beginCreateOrUpdateAndWait", "deployment", "create", "resourceGroup">>,
    <<"deployments.beginCreateOrUpdateAtSubscriptionScopeAndWait", "deployment", "create", "subscription">>,
    <<"deployments.beginCreateOrUpdateAtManagementGroupScopeAndWait", "deployment", "create", "managementGroup">>,
    <<"deployments.beginCreateOrUpdateAtTenantScopeAndWait", "deployment", "create", "tenant">>,
    <<"deployments.beginValidateAndWait", "deployment", "validate", "resourceGroup">>,
    <<"deployments.beginValidateAtSubscriptionScopeAndWait", "deployment", "validate", "subscription">>,
    <<"deployments.beginValidateAtManagementGroupScopeAndWait", "deployment", "validate", "managementGroup">>,
    <<"deployments.beginValidateAtTenantScopeAndWait", "deployment", "validate", "tenant">>,
    <<"deployments.beginWhatIfAndWait", "deployment", "whatIf", "resourceGroup">>,
    <<"deployments.beginWhatIfAtSubscriptionScopeAndWait", "deployment", "whatIf", "subscription">>,
    <<"deployments.beginWhatIfAtManagementGroupScopeAndWait", "deployment", "whatIf", "managementGroup">>,
    <<"deployments.beginWhatIfAtTenantScopeAndWait", "deployment", "whatIf", "tenant">>,
    <<"deploymentStacks.beginCreateOrUpdateAtResourceGroupAndWait", "deploymentStack", "create", "resourceGroup">>,
    <<"deploymentStacks.beginCreateOrUpdateAtSubscriptionAndWait", "deploymentStack", "create", "subscription">>,
    <<"deploymentStacks.beginCreateOrUpdateAtManagementGroupAndWait", "deploymentStack", "create", "managementGroup">>,
    <<"deploymentStacks.beginValidateStackAtResourceGroupAndWait", "deploymentStack", "validate", "resourceGroup">>,
    <<"deploymentStacks.beginValidateStackAtSubscriptionAndWait", "deploymentStack", "validate", "subscription">>,
    <<"deploymentStacks.beginValidateStackAtManagementGroupAndWait", "deploymentStack", "validate", "managementGroup">>,
    <<"deploymentStacks.beginDeleteAtResourceGroupAndWait", "deploymentStack", "delete", "resourceGroup">>,
    <<"deploymentStacks.beginDeleteAtSubscriptionAndWait", "deploymentStack", "delete", "subscription">>,
    <<"deploymentStacks.beginDeleteAtManagementGroupAndWait", "deploymentStack", "delete", "managementGroup">> }

\* execute has run at least up to its await
Started == pc # "start"

PassesScopeValidation == ~validateFileScope(config, files).threw
HasRequiredLocation == config.scope.type = "resourceGroup" \/ Truthy(config.location)

ExactlyTheMatchingCall ==
  /\ Len(calls) = 1
  /\ <<calls[1].method, config.type, config.operation, config.scope.type>> \in RemoteOperations

\* a deployment stack exists at three scopes only
SupportedScope == ~(config.type = "deploymentStack" /\ config.scope.type = "tenant")

\* C1, as the spec states it: for every configuration that passes scope validation
\* and carries any required location, at all four scopes and for both resource
\* kinds, a run of execute invokes exactly one remote operation, the matching one.
C1_Original ==
  (Started /\ PassesScopeValidation /\ HasRequiredLocation) => ExactlyTheMatchingCall

\* C1, amended: the same for a deployment at all four scopes and for a deployment
\* stack at resourceGroup, subscription and managementGroup scope; a deployment
\* stack at tenant scope invokes no remote operation at all.
C1_ExactlyOneMatchingCall ==
  (Started /\ PassesScopeValidation /\ HasRequiredLocation) =>
     IF SupportedScope THEN ExactlyTheMatchingCall ELSE calls = <<>>

C1_Witness ==
  /\ pc = "done"
  /\ config.type = "deploymentStack" /\ config.operation = "delete"
  /\ config.scope.type = "managementGroup"
  /\ remote.status = "rejected"
  /\ Len(calls) = 1

\* ---------------------------------------------------------------------- C2
IsStructured(e) ==
  e.kind = "RestError" /\ IsSome(e.details) /\ IsSome(e.details[1].error)

DomainMessage == IF config.operation = "validate" THEN "Validation failed" ELSE "Create failed"

StructuredFailureOfCreateOrValidate ==
  /\ pc = "done"
  /\ config.operation \in {"create", "validate"}
  /\ remote.status = "rejected"
  /\ IsStructured(remote.error)

\* C2: when the remote call of a validate (create) operation fails with a transport
\* error that carries a structured service error, execute returns normally, the run
\* is marked failed exactly once, with "Validation failed" ("Create failed"), and
\* "Operation failed" is never reported.
C2_DomainFailure ==
  StructuredFailureOfCreateOrValidate =>
     /\ outcome = "returned"
     /\ thrown = NoError
     /\ failed = <<DomainMessage>>

C2_Witness ==
  /\ StructuredFailureOfCreateOrValidate
  /\ config.type = "deployment" /\ config.operation = "validate"
  /\ config.scope.type = "resourceGroup"
  /\ failed = <<"Validation failed">>

\* ---------------------------------------------------------------------- C3
\* The error the action wrapped by tryWithErrorHandling failed with: the error of
\* the remote call, or the missing-location error.
ActionError ==
  IF remote.status = "rejected" THEN Some(remote.error)
  ELSE IF pc = "done" /\ PassesScopeValidation /\ Dispatch(config, files).threw
    THEN Some(Dispatch(config, files).error)
  ELSE None

\* C3: tryWithErrorHandling invokes the handler only for a transport error with a
\* structured service error; for every other error of the wrapped action (a
\* transport error without structured body or without details, a non-transport
\* error) the handler is not invoked and the same error propagates to the caller.
C3_OtherErrorsPropagateUnchanged ==
  (pc = "done" /\ config.operation \in {"create", "validate"} /\ IsSome(ActionError)
     /\ ~IsStructured(ActionError[1])) =>
       LET translated == tryWithErrorHandlingCatch(ActionError[1], DomainMessage)
       IN /\ translated.failed = <<>>
          /\ translated.raised
          /\ translated.error = ActionError[1]
          /\ DomainMessage \notin Range(failed)

\* ---------------------------------------------------------------------- C4
\* C4: whenever an error reaches the catch block of execute, the run is marked
\* failed before execute raises, and execute raises that very error, whatever the
\* response body of a transport error holds.
C4_TopLevelMarksFailedAndRethrows ==
  (pc = "done" /\ IsSome(caught)) =>
     /\ outcome = "raised"
     /\ thrown = caught[1]
     /\ failed # <<>>
     /\ failed[Len(failed)] = "Operation failed"

\* ---------------------------------------------------------------------- C5
LocationError == JsError("Error", <<"Location is required">>)

FailedWithMissingLocation ==
  /\ pc = "done"
  /\ outcome = "raised"
  /\ thrown = LocationError
  /\ calls = <<>>

\* C5, as the spec states it: for every resource kind and every operation, a
\* configuration whose scope is not resourceGroup and that has no location makes
\* execute fail with "Location is required" before any remote operation is invoked
\* (read for the configurations that pass scope validation, at the scopes the
\* resource kind supports).
C5_Original ==
  (Started /\ PassesScopeValidation /\ SupportedScope
     /\ config.scope.type # "resourceGroup" /\ ~Truthy(config.location)) =>
       FailedWithMissingLocation

\* C5, amended: the same for the operations create, validate and what-if; a stack
\* delete sends no request body, never asks for the location and invokes its
\* remote operation without one.
C5_MissingLocationFailsBeforeAnyCall ==
  (Started /\ PassesScopeValidation /\ SupportedScope
     /\ config.scope.type # "resourceGroup" /\ ~Truthy(config.location)) =>
       IF config.operation = "delete"
         THEN ExactlyTheMatchingCall
         ELSE FailedWithMissingLocation

C5_Witness ==
  /\ FailedWithMissingLocation
  /\ config.type = "deploymentStack" /\ config.operation = "create"
  /\ config.scope.type = "subscription"
  /\ failed = <<"Operation failed">>

\* ---------------------------------------------------------------------- C6
\* C6: whenever the parsed files carry a template-spec identifier, the request body
\* built for a deployment or a stack carries the reference to that id and no inline
\* template contents.
C6_TemplateSpecOnlyByReference ==
  \A i \in 1..Len(calls) :
     (IsSome(calls[i].body) /\ Truthy(files.templateSpecId)) =>
        /\ calls[i].body[1].templateLink = Some([id |-> files.templateSpecId])
        /\ calls[i].body[1].template = None

\* ---------------------------------------------------------------------- C7
\* Two strings are equal ignoring case.
SameIgnoringCase(a, b) ==
  /\ Len(a) = Len(b)
  /\ \A i \in 1..Len(a) :
       \/ a[i] = b[i]
       \/ \E j \in 1..Len(UpperChars) : {a[i], b[i]} = {UpperChars[j], LowerChars[j]}

SchemaTokenScopes ==
  { <<tTenant, "tenant">>, <<tManagementGroup, "managementGroup">>,
    <<tSubscription, "subscription">>, <<tDeployment, "resourceGroup">> }

ToolGenerated ==
  IsSome(files.templateContents) /\ Truthy(files.templateContents[1].generator)

\* the scopes the token of a well-formed schema URI names, ignoring case
InferredScopes ==
  IF ToolGenerated /\ IsSome(SchemaPatternExec(files.templateContents[1].schema))
    THEN { r[2] : r \in { q \in SchemaTokenScopes :
                            SameIgnoringCase(q[1], files.templateContents[1].schema.token) } }
    ELSE {}

\* C7: for a tool-generated template whose schema URI token names a scope, ignoring
\* case, validateFileScope fails if and only if that scope differs from the
\* configured scope type, with a message naming both, and execute raises that error
\* without any remote call.
C7_ScopeMismatchIffDifferent ==
  Started =>
    \A inferred \in InferredScopes :
      LET valid == validateFileScope(config, files)
      IN /\ valid.threw <=> inferred # config.scope.type
         /\ valid.threw =>
              /\ valid.error.message =
                   <<"The target scope ", inferred, " does not match the deployment scope ",
                     config.scope.type, ".">>
              /\ pc = "done" /\ outcome = "raised"
              /\ caught = Some(valid.error) /\ thrown = valid.error
              /\ calls = <<>>

\* a template whose token is written TenantDeployment, configured for a subscription
C7_Witness ==
  /\ pc = "done"
  /\ ToolGenerated
  /\ files.templateContents[1].schema.token = tTenantCap
  /\ InferredScopes = {"tenant"}
  /\ config.scope.type = "subscription"
  /\ outcome = "raised"

\* ---------------------------------------------------------------------- C8
IsScopeError(e) ==
  /\ e.kind = "Error"
  /\ e.message[1] \in {"The target scope ",
                       "Failed to determine deployment scope from Bicep file."}

\* C8: a template without generator metadata passes scope validation, for every
\* configured scope and whatever its $schema is; no scope error reaches execute's
\* catch block.
C8_NoGeneratorBypassesValidation ==
  (Started /\ ~ToolGenerated) =>
     /\ ~validateFileScope(config, files).threw
     /\ IsSome(caught) => ~IsScopeError(caught[1])

\* no generator, a schema naming the tenant scope, configured for a resource group
C8_Witness ==
  /\ pc = "awaiting"
  /\ IsSome(files.templateContents)
  /\ ~ToolGenerated
  /\ files.templateContents[1].schema.token = tTenant
  /\ IsSome(SchemaPatternExec(files.templateContents[1].schema))
  /\ config.scope.type = "resourceGroup"
  /\ Len(calls) = 1

\* ---------------------------------------------------------------------- C9
MaskedIgnoringCase(key) ==
  /\ IsSome(config.maskedOutputs)
  /\ \E i \in 1..Len(config.maskedOutputs[1]) :
       SameIgnoringCase(config.maskedOutputs[1][i], key)

IsSetOutput(ev) == ev.op = "setOutput"

\* the output calls evts project the output entries outs
ProjectionOf(outs, evts) ==
  /\ LET written == SelectSeq(evts, IsSetOutput)
     IN /\ Len(written) = Len(outs)
        /\ \A i \in 1..Len(outs) :
             written[i].name = outs[i].key /\ written[i].value = outs[i].value
  /\ \A j \in 1..Len(evts) :
       /\ evts[j].op = "setOutput" =>
            ( MaskedIgnoringCase(evts[j].name) <=>
              (j < Len(evts) /\ evts[j + 1].op = "setSecret"
                 /\ evts[j + 1].value = evts[j].value) )
       /\ evts[j].op = "setSecret" => (j > 1 /\ evts[j - 1].op = "setOutput")

\* what execute hands to setCreateOutputs: result?.properties?.outputs
ProjectionInput ==
  IF Dispatch(config, files).returnsResult THEN remote.result.outputs ELSE None

\* C9: the projection writes every output entry under its own key, registers the
\* value as a secret exactly for the keys that equal, ignoring case, some entry of
\* config.maskedOutputs, and writes nothing when the outputs are absent.
C9_OutputProjection ==
  (pc = "done" /\ config.operation = "create" /\ remote.status = "resolved") =>
     IF IsSome(ProjectionInput)
       THEN ProjectionOf(ProjectionInput[1], outputs)
       ELSE outputs = <<>>

\* foo written plainly, secretOut written and registered, masked as SecretOut
C9_Witness ==
  /\ pc = "done"
  /\ config.maskedOutputs = Some(<<kSecretOutCap>>)
  /\ remote.result.outputs =
       Some(<<[key |-> kFoo, value |-> "bar"], [key |-> kSecretOut, value |-> "baz"]>>)
  /\ outputs = <<SetOutput(kFoo, "bar"), SetOutput(kSecretOut, "baz"), SetSecret("baz")>>

\* --------------------------------------------------------------------- C10
\* C10: after a create whose remote call completes and returns outputs, every
\* returned output has been written, at every scope the resource kind supports;
\* validate, what-if and delete write no output.
C10_CreateWritesReturnedOutputs ==
  (pc = "done" /\ remote.status = "resolved") =>
     IF config.operation = "create"
       THEN IsSome(remote.result.outputs) =>
              \A i \in 1..Len(remote.result.outputs[1]) :
                 SetOutput(remote.result.outputs[1][i].key,
                           remote.result.outputs[1][i].value) \in Range(outputs)
       ELSE outputs = <<>>

\* --------------------------------------------------------------------- C11
\* the pretty-printed JSON of a service error with the code c
ServiceErrorJson(c) == <<"{", "code", ":", c, "}">>

\* the token sequence sub occurs in text
OccursIn(sub, text) ==
  \E k \in 0..(Len(text) - Len(sub)) : SubSeq(text, k + 1, k + Len(sub)) = sub

StructuredRemoteFailure ==
  /\ pc = "done"
  /\ remote.status = "rejected"
  /\ IsStructured(remote.error)

\* C11: every structured service error raised by a remote operation of any kind
\* (create, validate, what-if, delete) is in the error log as a correlation-id line
\* followed by the pretty-printed JSON of the error, in that order and each exactly
\* once, before the run is marked failed; for a handled create/validate error the
\* second error-log entry is the JSON carrying the service error code.
C11_StructuredErrorSurfaced ==
  StructuredRemoteFailure =>
     LET code == remote.error.details[1].error[1].code
     IN /\ Len(errors) = 2
        /\ errors[1] = <<"Request failed. CorrelationId: ", remote.error.correlationId>>
        /\ OccursIn(ServiceErrorJson(code), errors[2])
        /\ config.operation \in {"create", "validate"} => errors[2] = ServiceErrorJson(code)
        /\ Len(failed) = 1
        /\ failedAt = <<2>>

\* a stack delete that fails with a structured service error
C11_Witness ==
  /\ StructuredRemoteFailure
  /\ config.type = "deploymentStack" /\ config.operation = "delete"
  /\ remote.error.correlationId = "corr-1"
  /\ Len(errors) = 2
  /\ failed = <<"Operation failed">>

====
